---------------------------- MODULE Spec2Model ----------------------------
(***************************************************************************)
(* A model of the spectral-analysis harness of sunfish-rs                   *)
(* (src/analysis/analyze.py and src/analysis/utils/*.py).                   *)
(*                                                                         *)
(* Numbers.  Python floats are modelled in exact arithmetic:               *)
(*   - a rational is the record [p, q] in lowest terms with q > 0;         *)
(*   - a sample that the code obtains from np.sin is kept as the formal    *)
(*     sum the code adds up, [comps, time]: the sequence of the            *)
(*     FreqComponents whose term was added and the time it was taken at;   *)
(*     its only evaluated property is whether it is exactly 0.0;           *)
(*   - a formal sample scaled by a ramp value m other than 0 and 1 is the  *)
(*     record [x, m].                                                      *)
(* Strings that the code transforms (the shape name) are sequences of      *)
(* one-character strings.  None is the record [none |-> TRUE].             *)
(* A call that can raise returns [exc, val]: exc is "none" or the name of  *)
(* the Python exception, val the returned value.                           *)
(***************************************************************************)
EXTENDS Integers, Sequences, FiniteSets, TLC

VARIABLES
    pc,       \* position of the running program
    args,     \* the arguments of the invocation (or of the function called)
    loc,      \* the local variables of heatmap / plot_waves
    calls,    \* every call made into pysunfish, in order
    synth,    \* every reference waveform computed, in order
    ret       \* the value returned (or the exception raised)

vars == <<pc, args, loc, calls, synth, ret>>

---------------------------------------------------------------------------
(* Exact rational arithmetic.                                              *)

Abs(x) == IF x < 0 THEN -x ELSE x

RECURSIVE GCD(_, _)
GCD(a, b) == IF b = 0 THEN a ELSE GCD(b, a % b)

Rat(p, q) ==
    LET g == GCD(Abs(p), Abs(q))
        s == IF q < 0 THEN -1 ELSE 1
    IN  [p |-> (s * p) \div g, q |-> (s * q) \div g]

Zero == [p |-> 0, q |-> 1]
One == [p |-> 1, q |-> 1]
None == [none |-> TRUE]

RInt(n) == [p |-> n, q |-> 1]
RAdd(a, b) == Rat(a.p * b.q + b.p * a.q, a.q * b.q)
RSub(a, b) == Rat(a.p * b.q - b.p * a.q, a.q * b.q)
RMul(a, b) == Rat(a.p * b.p, a.q * b.q)
RDiv(a, b) == Rat(a.p * b.q, a.q * b.p)
RLt(a, b) == a.p * b.q < b.p * a.q
RGeq(a, b) == a.p * b.q >= b.p * a.q

IsRat(v) == DOMAIN v = {"p", "q"}
IsSum(v) == DOMAIN v = {"comps", "time"}

(* The Python test `v != 0.0` on a sample.  A formal sum is exactly zero    *)
(* when every term is sin(0); a scaled formal sample is never built from a  *)
(* zero factor (NumMul).                                                   *)
RECURSIVE NonZero(_)
NonZero(v) ==
    IF IsRat(v) THEN v.p # 0
    ELSE IF IsSum(v)
         THEN \E k \in 1..Len(v.comps) : RMul(v.comps[k].freq, v.time).p # 0
         ELSE NonZero(v.x)

(* sample * m for a ramp value m.                                          *)
NumMul(v, m) ==
    IF IsRat(v) THEN RMul(v, m)
    ELSE IF ~NonZero(v) \/ m = Zero THEN Zero
    ELSE IF m = One THEN v
    ELSE [x |-> v, m |-> m]

Ok(v) == [exc |-> "none", val |-> v]
Raise(e) == [exc |-> e, val |-> <<>>]

---------------------------------------------------------------------------
(* numpy helpers.                                                          *)

(* linspace without its end point (endpoint=False): the ramp never reaches *)
(* stop.                                                                   *)
linspace_open(start, stop, num) ==
    IF num < 0 THEN Raise("ValueError")
    ELSE LET step == RDiv(RSub(stop, start), RInt(IF num = 0 THEN 1 ELSE num))
         IN  Ok([j \in 1..num |-> RAdd(start, RMul(RInt(j - 1), step))])

(* np.linspace(start, stop, num): num < 0 raises, num = 1 is [start].      *)
linspace(start, stop, num) ==
    IF num < 0 THEN Raise("ValueError")
    ELSE IF num = 1 THEN Ok(<<start>>)
    ELSE LET step == RDiv(RSub(stop, start), RInt(num - 1))
         IN  Ok([j \in 1..num |->
                   IF j = num THEN stop
                   ELSE RAdd(start, RMul(RInt(j - 1), step))])

---------------------------------------------------------------------------
(* utils/synth.py                                                          *)

get_amp(harmonic) == IF harmonic % 2 = 0 THEN RInt(-1) ELSE RInt(1)

FreqComponent(freq, amp, divisor) ==
    [freq |-> freq, amp |-> amp, divisor |-> divisor]

(* The list comprehension of create_saw.                                   *)
components(f0, harmonics) ==
    [i \in 1..harmonics |->
        FreqComponent(RMul(RInt(i), f0), get_amp(i), RInt(i))]

(* `cut_at = cut_at or nyquist`: None and 0 are both falsy.                *)
cut_or_nyquist(cut_at, nyquist) ==
    IF cut_at = None \/ cut_at = Zero THEN nyquist ELSE cut_at

(* The components whose term the inner loop adds (those not skipped by     *)
(* `continue`), in the order it adds them.                                 *)
summed(comps, cut) ==
    LET keep(c) == ~RGeq(c.freq, cut) IN SelectSeq(comps, keep)

create_saw(sample_rate, n, f0, harmonics, cut_at) ==
    LET comps   == components(f0, harmonics)
        nyquist == RDiv(sample_rate, RInt(2))
        cut     == cut_or_nyquist(cut_at, nyquist)
    IN  IF sample_rate = Zero THEN Raise("ZeroDivisionError")
        ELSE IF n < 0 THEN Raise("ValueError")
        ELSE LET dt == RDiv(One, sample_rate)
             IN  Ok([i \in 1..n |->
                       [comps |-> summed(comps, cut),
                        time  |-> RMul(RInt(i - 1), dt)]])

---------------------------------------------------------------------------
(* utils/common.py                                                         *)

(* signal[0:len(mask)] = signal[0:len(mask)] * mask                         *)
ramp_up(signal, mask) ==
    IF Len(signal) < Len(mask) THEN Raise("ValueError")
    ELSE Ok([i \in 1..Len(signal) |->
                IF i <= Len(mask) THEN NumMul(signal[i], mask[i])
                ELSE signal[i]])

(* signal[-len(mask):] *= mask                                             *)
ramp_down(signal, mask) ==
    IF Len(signal) < Len(mask) THEN Raise("ValueError")
    ELSE LET off == Len(signal) - Len(mask)
         IN  Ok([i \in 1..Len(signal) |->
                    IF i > off THEN NumMul(signal[i], mask[i - off])
                    ELSE signal[i]])

smooth_edges(signal, amt) ==
    IF amt = 0 THEN Ok(signal)
    ELSE IF Len(signal) = 0 THEN Raise("IndexError")
    ELSE
      LET up == IF NonZero(signal[1])
                THEN LET mask == linspace(Zero, One, amt)
                     IN  IF mask.exc # "none" THEN mask
                         ELSE ramp_up(signal, mask.val)
                ELSE Ok(signal)
      IN  IF up.exc # "none" THEN up
          ELSE IF NonZero(up.val[Len(up.val)])
               THEN LET mask == linspace(One, Zero, amt)
                    IN  IF mask.exc # "none" THEN mask
                        ELSE ramp_down(up.val, mask.val)
               ELSE up


(* A complex number is [re, im] over the rationals.                        *)
Cx(re, im) == [re |-> re, im |-> im]
CAdd(a, b) == Cx(RAdd(a.re, b.re), RAdd(a.im, b.im))
Abs2(z) == RAdd(RMul(z.re, z.re), RMul(z.im, z.im))

(* x * exp(-2 pi i * quarter / 4) for a real x.                            *)
Twiddle(x, quarter) ==
    CASE quarter % 4 = 0 -> Cx(x, Zero)
      [] quarter % 4 = 1 -> Cx(Zero, RSub(Zero, x))
      [] quarter % 4 = 2 -> Cx(RSub(Zero, x), Zero)
      [] quarter % 4 = 3 -> Cx(Zero, x)

RECURSIVE CSum(_, _)
CSum(f, k) == IF k = 0 THEN Cx(Zero, Zero) ELSE CAdd(CSum(f, k - 1), f[k])

(* The lengths whose DFT has only the twiddle factors 1, -i, -1, i: for    *)
(* these (and rational samples) the transform is evaluated; otherwise the  *)
(* bin is kept as the application [bin, of].                               *)
Evaluated(signal) ==
    /\ Len(signal) \in {1, 2, 4}
    /\ \A i \in 1..Len(signal) : IsRat(signal[i])

(* numpy.fft.rfft: bins 0 .. n // 2 of the DFT; an empty input raises.     *)
rfft(signal) ==
    LET n == Len(signal)
    IN  IF n = 0 THEN Raise("ValueError")
        ELSE Ok([k \in 1..(n \div 2 + 1) |->
                  IF Evaluated(signal)
                  THEN CSum([j \in 1..n |->
                               Twiddle(signal[j], (4 \div n) * (j - 1) * (k - 1))], n)
                  ELSE [bin |-> k - 1, of |-> signal]])

(* numpy.fft.rfftfreq(n, d): arange(0, n // 2 + 1) * (1.0 / (n * d)).      *)
rfftfreq(n, d) ==
    LET val == RDiv(One, RMul(RInt(n), d))
    IN  [k \in 1..(n \div 2 + 1) |-> RMul(RInt(k - 1), val)]

RECURSIVE MaxAbs2(_, _)
MaxAbs2(yf, k) ==
    IF k = 0 THEN Zero
    ELSE LET m == MaxAbs2(yf, k - 1)
         IN  IF RLt(m, Abs2(yf[k])) THEN Abs2(yf[k]) ELSE m

(* The direction of z: the coprime integer pair it is a positive multiple  *)
(* of; <<0, 0>> for z = 0.  arg(z) = 0 exactly when it is <<1, 0>>.         *)
Direction(z) ==
    LET a == z.re.p * z.im.q
        b == z.im.p * z.re.q
        g == GCD(Abs(a), Abs(b))
    IN  IF g = 0 THEN <<0, 0>> ELSE <<a \div g, b \div g>>

(* 20.0 * np.log10(z / peak) for a complex z and the real peak >= 0, as    *)
(* the pair that determines it: the value is                               *)
(*   10 log10(mag2)  +  i * 20 arg(dir) / ln 10,                           *)
(* so it is real exactly when dir is on the non-negative real axis, and    *)
(* its real part is 0 dB exactly when mag2 = 1.  A zero peak gives NaN.     *)
db_of_ratio(z, peak2) ==
    IF peak2 = Zero THEN [nan |-> TRUE]
    ELSE [mag2 |-> RDiv(Abs2(z), peak2), dir |-> Direction(z)]

fft(signal, sample_rate) ==
    LET t  == RDiv(One, sample_rate)
        n  == Len(signal)
        yf == rfft(signal)
    IN  IF yf.exc # "none" THEN yf
        ELSE LET xf   == SubSeq(rfftfreq(n, t), 1, Len(yf.val))
                 y_db == [k \in 1..Len(yf.val) |->
                            IF Evaluated(signal)
                            THEN db_of_ratio(yf.val[k],
                                             MaxAbs2(yf.val, Len(yf.val)))
                            ELSE [db |-> yf.val[k]]]
             IN  Ok([xf |-> xf, y_db |-> y_db])

---------------------------------------------------------------------------
(* Python built-ins used by analyze.py.                                    *)

(* int(x): truncation toward zero.                                         *)
py_int(r) == IF r.p >= 0 THEN r.p \div r.q ELSE -((-r.p) \div r.q)

UpperChars == <<"A", "B", "C", "D", "E", "F", "G", "H", "I", "J", "K", "L", "M",
                "N", "O", "P", "Q", "R", "S", "T", "U", "V", "W", "X", "Y", "Z">>
LowerChars == <<"a", "b", "c", "d", "e", "f", "g", "h", "i", "j", "k", "l", "m",
                "n", "o", "p", "q", "r", "s", "t", "u", "v", "w", "x", "y", "z">>
Whitespace == {" ", "\t", "\n"}

(* str.lower()                                                             *)
str_lower(s) ==
    [i \in 1..Len(s) |->
        IF \E k \in 1..Len(UpperChars) : UpperChars[k] = s[i]
        THEN LowerChars[CHOOSE k \in 1..Len(UpperChars) : UpperChars[k] = s[i]]
        ELSE s[i]]

(* str.strip()                                                             *)
str_strip(s) ==
    LET keep == {i \in 1..Len(s) : s[i] \notin Whitespace}
    IN  IF keep = {} THEN <<>>
        ELSE SubSeq(s, CHOOSE i \in keep : \A j \in keep : i <= j,
                       CHOOSE i \in keep : \A j \in keep : i >= j)

(* seq[start:end] with Python's clamping and negative indices (0-based).   *)
py_index(i, len) ==
    IF i < 0 THEN (IF len + i < 0 THEN 0 ELSE len + i)
    ELSE IF i > len THEN len ELSE i

py_slice(seq, start, end) ==
    SubSeq(seq, py_index(start, Len(seq)) + 1, py_index(end, Len(seq)))

(* np.array(list_of_rows): [shape, data]; an empty list is the 1-d array   *)
(* of shape (0,).                                                          *)
np_array(rows) ==
    IF Len(rows) = 0 THEN [shape |-> <<0>>, data |-> <<>>]
    ELSE [shape |-> <<Len(rows), Len(rows[1])>>, data |-> rows]

(* The transposition forgotten.                                            *)
np_transpose_none(a) == a

(* ndarray.T: the axes reversed (a 1-d array is its own transpose).        *)
np_transpose(a) ==
    IF Len(a.shape) < 2 THEN a
    ELSE [shape |-> <<a.shape[2], a.shape[1]>>,
          data  |-> [r \in 1..a.shape[2] |->
                       [c \in 1..a.shape[1] |-> a.data[c][r]]]]

---------------------------------------------------------------------------
(* utils/common.py, utils/interface.py                                     *)

(* 2.0 ** (k / 12.0) for k in 0..11, in thousandths (rounded).             *)
SemitoneRatio ==
    <<1000, 1059, 1122, 1189, 1260, 1335, 1414, 1498, 1587, 1682, 1782, 1888>>

RECURSIVE Pow2(_)
Pow2(k) == IF k = 0 THEN 1 ELSE 2 * Pow2(k - 1)

(* 440.0 * 2.0 ** ((note - 69) / 12.0), to the precision of SemitoneRatio. *)
freq_for(note) ==
    LET base_note == note - 69
        octave    == base_note \div 12
        ratio     == Rat(SemitoneRatio[(base_note % 12) + 1], 1000)
        scale     == IF octave >= 0 THEN Rat(Pow2(octave), 1)
                     ELSE Rat(1, Pow2(-octave))
    IN  RMul(RInt(440), RMul(ratio, scale))

RECURSIVE eparam_open(_)
eparam_open(elms) ==
    IF elms = <<>> THEN <<>>
    ELSE <<"{\"", Head(elms), "\": ">> \o eparam_open(Tail(elms))

(* start + "null" + end, as the sequence of the pieces concatenated.       *)
eparam_path(elms) ==
    eparam_open(elms) \o <<"null">> \o [i \in 1..Len(elms) |-> "}"]

---------------------------------------------------------------------------
(* analyze.py                                                              *)

SAMPLE_RATE == 44100
DEFAULT_CHUNK_SIZE == 1024
DEFAULT_NOTE_START == 30
DEFAULT_NOTE_END == 155
HEATMAP_CHUNK_SIZE == 1024
SOFT_SAW_HARMONICS == 8
HARD_SAW_HARMONICS == 64

SINE == <<"s", "i", "n", "e">>
SOFTSAW == <<"s", "o", "f", "t", "s", "a", "w">>
HARDSAW == <<"h", "a", "r", "d", "s", "a", "w">>
DEFAULT_SHAPE == <<"S", "i", "n", "e">>

(* shape_float without its softsaw branch.                                 *)
shape_float_no_softsaw(shape) ==
    LET sh == str_strip(str_lower(shape))
    IN  IF sh = SINE THEN Ok(Zero)
        ELSE IF sh = HARDSAW THEN Ok(Rat(7, 10))
        ELSE Raise("ValueError")

shape_float(shape) ==
    LET sh == str_strip(str_lower(shape))
    IN  IF sh = SINE THEN Ok(Zero)
        ELSE IF sh = SOFTSAW THEN Ok(Rat(4, 10))
        ELSE IF sh = HARDSAW THEN Ok(Rat(7, 10))
        ELSE Raise("ValueError")

(* The chain ending in a default instead of the raise.                     *)
heatmap_harmonics_default(sh) ==
    IF sh = SINE THEN Ok(1)
    ELSE IF sh = SOFTSAW THEN Ok(SOFT_SAW_HARMONICS)
    ELSE Ok(HARD_SAW_HARMONICS)

(* The shape-to-harmonics chain of heatmap, applied to the normalised      *)
(* shape.                                                                  *)
heatmap_harmonics(sh) ==
    IF sh = SINE THEN Ok(1)
    ELSE IF sh = SOFTSAW THEN Ok(SOFT_SAW_HARMONICS)
    ELSE IF sh = HARDSAW THEN Ok(HARD_SAW_HARMONICS)
    ELSE Raise("ValueError")

UpdateParam(path, value) == [op |-> "update_param", path |-> path, value |-> value]
NoteOn(note) == [op |-> "note_on", note |-> note]
NoteOff(note) == [op |-> "note_off", note |-> note]
Render(chunk_size, samples, shape) ==
    [op |-> "render", chunk_size |-> chunk_size, samples |-> samples,
     shape |-> shape]
CoreWrapper(sample_rate) == [op |-> "CoreWrapper", sample_rate |-> sample_rate]

(* initialize_synth: the update_param calls it makes, in order, and the     *)
(* exception that cut them short (shape_float is evaluated after the first  *)
(* call has been made).                                                    *)
initialize_synth(shape) ==
    LET first == <<UpdateParam(eparam_path(<<"Osc1", "Enable">>), One)>>
        sf    == shape_float(shape)
    IN  IF sf.exc # "none" THEN [exc |-> sf.exc, val |-> first]
        ELSE Ok(first \o
                <<UpdateParam(eparam_path(<<"Osc1", "Shape">>), sf.val),
                  UpdateParam(eparam_path(<<"Osc2", "Enable">>), Zero),
                  UpdateParam(eparam_path(<<"Filt1", "Enable">>), Zero),
                  UpdateParam(eparam_path(<<"Filt2", "Enable">>), Zero),
                  UpdateParam(eparam_path(<<"AmpEnv", "Attack">>), Rat(1, 10)),
                  UpdateParam(eparam_path(<<"AmpEnv", "Sustain">>), One),
                  UpdateParam(eparam_path(<<"AmpEnv", "Decay">>), One),
                  UpdateParam(eparam_path(<<"AmpEnv", "Release">>), One)>>)

---------------------------------------------------------------------------
(* Bounds of the function-level specifications.                            *)

MaxHarmonics == 3
MaxSawLen == 2
MaxCutHalves == 7
MaxLen == 5
MaxAmt == 3
MaxLevel == 1

---------------------------------------------------------------------------
(* create_saw applied to bounded arguments.                                *)

SawRates == {RInt(-4), Zero, RInt(4)}
SawFreqs == {RInt(-1), Zero, RInt(1), RInt(2)}
SawCuts == {None} \cup {Rat(k, 2) : k \in 0..MaxCutHalves}

InitSaw ==
    /\ pc = "call"
    /\ args \in [sample_rate : SawRates, n : -1..MaxSawLen, f0 : SawFreqs,
                 harmonics : 0..MaxHarmonics, cut_at : SawCuts]
    /\ loc = <<>>
    /\ calls = <<>>
    /\ synth = <<>>
    /\ ret = None

CallCreateSaw ==
    /\ pc = "call"
    /\ ret' = create_saw(args.sample_rate, args.n, args.f0, args.harmonics,
                         args.cut_at)
    /\ pc' = "returned"
    /\ UNCHANGED <<args, loc, calls, synth>>

SpecSaw == InitSaw /\ [][CallCreateSaw]_vars

---------------------------------------------------------------------------
(* smooth_edges and fft applied to bounded signals.                        *)

Levels == {RInt(v) : v \in -MaxLevel..MaxLevel}
Signals == UNION {[1..k -> Levels] : k \in 0..MaxLen}

InitSmooth ==
    /\ pc = "call"
    /\ args \in [signal : Signals, amt : -1..MaxAmt]
    /\ loc = <<>>
    /\ calls = <<>>
    /\ synth = <<>>
    /\ ret = None

CallSmoothEdges ==
    /\ pc = "call"
    /\ ret' = smooth_edges(args.signal, args.amt)
    /\ pc' = "returned"
    /\ UNCHANGED <<args, loc, calls, synth>>

SpecSmooth == InitSmooth /\ [][CallSmoothEdges]_vars

FftRates == {RInt(4), RInt(44100)}

InitFft ==
    /\ pc = "call"
    /\ args \in [signal : Signals, sample_rate : FftRates]
    /\ loc = <<>>
    /\ calls = <<>>
    /\ synth = <<>>
    /\ ret = None

CallFft ==
    /\ pc = "call"
    /\ ret' = fft(args.signal, args.sample_rate)
    /\ pc' = "returned"
    /\ UNCHANGED <<args, loc, calls, synth>>

SpecFft == InitFft /\ [][CallFft]_vars

---------------------------------------------------------------------------
(* The program: main, heatmap and plot_waves, one action per step.         *)

MaxSamples == 2
MaxNotes == 2
MaxSmooth == 2

(* What pysunfish's render may return for the left channel (the right one  *)
(* is discarded by both callers): silence, or a ramp that starts at 0 or   *)
(* at 1, so that every sample of a signal differs from its neighbours.     *)
EngineSignals(n) ==
    {[i \in 1..n |-> Zero]} \cup {[i \in 1..n |-> RInt(b + i - 1)] : b \in 0..1}

ShapeNames ==
    {DEFAULT_SHAPE, SOFTSAW, <<" ", "H", "a", "r", "d", "S", "a", "w", "\n">>,
     <<"t", "r", "i", "a", "n", "g", "l", "e">>, <<>>}
LengthSecs == {Rat(k, 2 * SAMPLE_RATE) : k \in -2..(2 * MaxSamples + 1)}
StartNotes == DEFAULT_NOTE_START..(DEFAULT_NOTE_START + 1)
EndNotes == DEFAULT_NOTE_START..(DEFAULT_NOTE_START + MaxNotes)
ChunkSizes == {DEFAULT_CHUNK_SIZE, 256}
Cuts == {None, RInt(1)}

(* The parsed command lines considered.                                    *)
Invocations ==
    [spectra : {TRUE}, single : {FALSE}, shape : ShapeNames,
     length : LengthSecs, note_start : StartNotes, note_end : EndNotes,
     smooth : 0..MaxSmooth, chunk_size : ChunkSizes,
     cut_start : {None}, cut_end : {None}]
    \cup
    [spectra : {FALSE}, single : {TRUE}, shape : ShapeNames,
     length : LengthSecs, note_start : StartNotes, note_end : {DEFAULT_NOTE_END},
     smooth : 0..MaxSmooth, chunk_size : ChunkSizes,
     cut_start : Cuts, cut_end : Cuts]
    \cup
    [spectra : BOOLEAN, single : BOOLEAN, shape : {DEFAULT_SHAPE},
     length : {Rat(2, SAMPLE_RATE)}, note_start : {DEFAULT_NOTE_START},
     note_end : {DEFAULT_NOTE_START + 1}, smooth : {0},
     chunk_size : {DEFAULT_CHUNK_SIZE}, cut_start : {None}, cut_end : {None}]

Init ==
    /\ pc = "main"
    /\ args \in Invocations
    /\ loc = <<>>
    /\ calls = <<>>
    /\ synth = <<>>
    /\ ret = None

(* An exception leaves the program.                                        *)
Fail(e) == pc' = "raised" /\ ret' = Raise(e)

Main ==
    /\ pc = "main"
    /\ IF args.spectra
       THEN /\ pc' = "heatmap"
            /\ loc' = [shape |-> args.shape, length_sec |-> args.length,
                       note_start |-> args.note_start, note_end |-> args.note_end,
                       smooth_samples |-> args.smooth]
            /\ UNCHANGED ret
       ELSE IF args.single
       THEN /\ pc' = "plot_waves"
            /\ loc' = [time_sec |-> args.length, note |-> args.note_start,
                       shape |-> args.shape, chunk_size |-> args.chunk_size,
                       cut_start |-> args.cut_start, cut_end |-> args.cut_end,
                       smooth_samples |-> args.smooth]
            /\ UNCHANGED ret
       ELSE /\ pc' = "done"
            /\ ret' = Ok(None)
            /\ UNCHANGED loc
    /\ UNCHANGED <<args, calls, synth>>

(* heatmap up to the loop: the sample count, the shape validation.         *)
HeatmapBegin ==
    /\ pc = "heatmap"
    /\ LET samples == py_int(RMul(loc.length_sec, RInt(SAMPLE_RATE)))
           shape   == str_strip(str_lower(loc.shape))
           h       == heatmap_harmonics(shape)
       IN  IF h.exc # "none"
           THEN Fail(h.exc) /\ UNCHANGED loc
           ELSE /\ loc' = [shape |-> shape, length_sec |-> loc.length_sec,
                           note_end |-> loc.note_end,
                           smooth_samples |-> loc.smooth_samples,
                           samples |-> samples, chunk_size |-> HEATMAP_CHUNK_SIZE,
                           harmonics |-> h.val, spectra |-> <<>>,
                           spectra_ideal |-> <<>>, note |-> loc.note_start,
                           signal |-> <<>>, l |-> <<>>]
                /\ pc' = "hm_for"
                /\ UNCHANGED ret
    /\ UNCHANGED <<args, calls, synth>>

(* for note in range(note_start, note_end)                                 *)
HeatmapFor ==
    /\ pc = "hm_for"
    /\ pc' = IF loc.note < loc.note_end THEN "hm_ideal" ELSE "hm_finish"
    /\ UNCHANGED <<args, loc, calls, synth, ret>>

SawCall(sample_rate, n, f0, harmonics) ==
    [fn |-> "create_saw", sample_rate |-> sample_rate, n |-> n, f0 |-> f0,
     harmonics |-> harmonics]

(* The ideal half of the loop body: create_saw, smooth_edges, fft, append. *)
HeatmapIdeal ==
    /\ pc = "hm_ideal"
    /\ LET freq == freq_for(loc.note)
           ts   == linspace(Zero, loc.length_sec, loc.samples)
           saw  == create_saw(RInt(SAMPLE_RATE), loc.samples, freq,
                              loc.harmonics, None)
           sm   == smooth_edges(saw.val, loc.smooth_samples)
           f    == fft(sm.val, RInt(SAMPLE_RATE))
       IN  IF ts.exc # "none"
           THEN Fail(ts.exc) /\ UNCHANGED <<loc, synth>>
           ELSE /\ synth' = Append(synth, SawCall(SAMPLE_RATE, loc.samples, freq,
                                                  loc.harmonics))
                /\ IF saw.exc # "none" THEN Fail(saw.exc) /\ UNCHANGED loc
                   ELSE IF sm.exc # "none" THEN Fail(sm.exc) /\ UNCHANGED loc
                   ELSE IF f.exc # "none" THEN Fail(f.exc) /\ UNCHANGED loc
                   ELSE /\ loc' = [loc EXCEPT
                                     !.signal = saw.val,
                                     !.spectra_ideal = Append(@, f.val.y_db)]
                        /\ pc' = "hm_engine"
                        /\ UNCHANGED ret
    /\ UNCHANGED <<args, calls>>

(* synth = pysunfish.CoreWrapper(SAMPLE_RATE); initialize_synth(synth, shape) *)
HeatmapEngine ==
    /\ pc = "hm_engine"
    /\ LET init == initialize_synth(loc.shape)
       IN  /\ calls' = calls \o <<CoreWrapper(SAMPLE_RATE)>> \o init.val
           /\ IF init.exc # "none" THEN Fail(init.exc)
              ELSE pc' = "hm_note_on" /\ UNCHANGED ret
    /\ UNCHANGED <<args, loc, synth>>

HeatmapNoteOn ==
    /\ pc = "hm_note_on"
    /\ calls' = Append(calls, NoteOn(loc.note))
    /\ pc' = "hm_render"
    /\ UNCHANGED <<args, loc, synth, ret>>

(* l, _r = synth.render(chunk_size, samples, shape)                        *)
HeatmapRender ==
    /\ pc = "hm_render"
    /\ \E l \in EngineSignals(loc.samples) :
          /\ calls' = Append(calls, Render(loc.chunk_size, loc.samples, loc.shape))
          /\ loc' = [loc EXCEPT !.l = l]
    /\ pc' = "hm_note_off"
    /\ UNCHANGED <<args, synth, ret>>

HeatmapNoteOff ==
    /\ pc = "hm_note_off"
    /\ calls' = Append(calls, NoteOff(loc.note))
    /\ pc' = "hm_rendered"
    /\ UNCHANGED <<args, loc, synth, ret>>

(* The rendered half of the loop body: smooth_edges(signal, ...), fft,     *)
(* append; then the next note.                                             *)
HeatmapRendered ==
    /\ pc = "hm_rendered"
    /\ LET sm == smooth_edges(loc.signal, loc.smooth_samples)
           f  == fft(sm.val, RInt(SAMPLE_RATE))
       IN  IF sm.exc # "none" THEN Fail(sm.exc) /\ UNCHANGED loc
           ELSE IF f.exc # "none" THEN Fail(f.exc) /\ UNCHANGED loc
           ELSE /\ loc' = [loc EXCEPT !.spectra = Append(@, f.val.y_db),
                                      !.note = @ + 1]
                /\ pc' = "hm_for"
                /\ UNCHANGED ret
    /\ UNCHANGED <<args, calls, synth>>

(* np.array(...).T of both accumulators (the plotting that follows is not  *)
(* modelled).                                                              *)
HeatmapFinish ==
    /\ pc = "hm_finish"
    /\ loc' = [loc EXCEPT !.spectra_ideal = np_transpose(np_array(@)),
                          !.spectra = np_transpose(np_array(@))]
    /\ pc' = "done"
    /\ ret' = Ok(None)
    /\ UNCHANGED <<args, calls, synth>>

(* np.sin(TAU * freq * ts): sample i is the one-term sum sin(TAU freq ts[i]). *)
np_sin_wave(freq, ts) ==
    [i \in 1..Len(ts) |->
        [comps |-> <<FreqComponent(freq, One, One)>>, time |-> ts[i]]]

(* plot_waves up to the engine: buf_len and the reference sine.            *)
PlotBegin ==
    /\ pc = "plot_waves"
    /\ LET buf_len == py_int(RMul(loc.time_sec, RInt(SAMPLE_RATE)))
           freq    == freq_for(loc.note)
           ts      == linspace(Zero, loc.time_sec, buf_len)
       IN  IF ts.exc # "none"
           THEN Fail(ts.exc) /\ UNCHANGED <<loc, synth>>
           ELSE /\ loc' = [time_sec |-> loc.time_sec, note |-> loc.note,
                           shape |-> loc.shape, chunk_size |-> loc.chunk_size,
                           cut_start |-> loc.cut_start, cut_end |-> loc.cut_end,
                           smooth_samples |-> loc.smooth_samples,
                           buf_len |-> buf_len,
                           ys |-> np_sin_wave(freq, ts.val),
                           signal_left |-> <<>>, signal |-> <<>>,
                           ys_plot |-> <<>>, xf |-> <<>>, y_db |-> <<>>]
                /\ synth' = Append(synth, [fn |-> "np.sin", freq |-> freq,
                                           n |-> buf_len])
                /\ pc' = "pw_engine"
                /\ UNCHANGED ret
    /\ UNCHANGED <<args, calls>>

PlotEngine ==
    /\ pc = "pw_engine"
    /\ LET init == initialize_synth(loc.shape)
       IN  /\ calls' = calls \o <<CoreWrapper(SAMPLE_RATE)>> \o init.val
           /\ IF init.exc # "none" THEN Fail(init.exc)
              ELSE pc' = "pw_note_on" /\ UNCHANGED ret
    /\ UNCHANGED <<args, loc, synth>>

PlotNoteOn ==
    /\ pc = "pw_note_on"
    /\ calls' = Append(calls, NoteOn(loc.note))
    /\ pc' = "pw_render"
    /\ UNCHANGED <<args, loc, synth, ret>>

(* signal_left, _signal_right = synth.render(chunk_size, buf_len, shape)   *)
PlotRender ==
    /\ pc = "pw_render"
    /\ \E l \in EngineSignals(loc.buf_len) :
          /\ calls' = Append(calls, Render(loc.chunk_size, loc.buf_len, loc.shape))
          /\ loc' = [loc EXCEPT !.signal_left = l]
    /\ pc' = "pw_window"
    /\ UNCHANGED <<args, synth, ret>>

(* The rest of plot_waves: the cut window, both smoothings, the fft of the *)
(* rendered signal (the plotting is not modelled).                         *)
PlotWindow ==
    /\ pc = "pw_window"
    /\ LET start    == IF loc.cut_start # None THEN loc.cut_start.p ELSE 0
           end      == IF loc.cut_end # None THEN loc.cut_end.p ELSE loc.buf_len
           plot_len == end - start
           signal   == smooth_edges(py_slice(loc.signal_left, start, end),
                                    loc.smooth_samples)
           ys_plot  == smooth_edges(py_slice(loc.ys, 0, plot_len),
                                    loc.smooth_samples)
           f        == fft(signal.val, RInt(SAMPLE_RATE))
       IN  IF signal.exc # "none" THEN Fail(signal.exc) /\ UNCHANGED loc
           ELSE IF ys_plot.exc # "none" THEN Fail(ys_plot.exc) /\ UNCHANGED loc
           ELSE IF f.exc # "none" THEN Fail(f.exc) /\ UNCHANGED loc
           ELSE /\ loc' = [loc EXCEPT !.signal = signal.val,
                                      !.ys_plot = ys_plot.val,
                                      !.xf = f.val.xf, !.y_db = f.val.y_db]
                /\ pc' = "done"
                /\ ret' = Ok(None)
    /\ UNCHANGED <<args, calls, synth>>

Next ==
    \/ Main
    \/ HeatmapBegin
    \/ HeatmapFor
    \/ HeatmapIdeal
    \/ HeatmapEngine
    \/ HeatmapNoteOn
    \/ HeatmapRender
    \/ HeatmapNoteOff
    \/ HeatmapRendered
    \/ HeatmapFinish
    \/ PlotBegin
    \/ PlotEngine
    \/ PlotNoteOn
    \/ PlotRender
    \/ PlotWindow

Spec == Init /\ [][Next]_vars

---------------------------------------------------------------------------
(* Claims about create_saw (SpecSaw).                                      *)

Returned == pc = "returned" /\ ret.exc = "none"

(* Harmonic h has a term in output sample i.                                *)
Contributes(h, i) ==
    \E k \in 1..Len(ret.val[i].comps) : ret.val[i].comps[k].divisor = RInt(h)

(* The cutoff the claim C6 names: cut_at whenever supplied, else Nyquist.   *)
ClaimedCutoff ==
    IF args.cut_at = None THEN RDiv(args.sample_rate, RInt(2)) ELSE args.cut_at

(* C6: harmonic h of 1..harmonics contributes to every output sample if and *)
(* only if h * f0 < cutoff, the cutoff being the supplied cut_at (any value, *)
(* 0 included) and sample_rate / 2 only when cut_at is not supplied.        *)
C6_CutoffIsSuppliedValue ==
    Returned =>
        \A i \in 1..Len(ret.val) : \A h \in 1..args.harmonics :
            Contributes(h, i) <=> RLt(RMul(RInt(h), args.f0), ClaimedCutoff)

(* C9: a call with f0 <= 0, sample_rate <= 0 or n < 0 ends in an error and  *)
(* returns no array.                                                       *)
C9_RejectsInvalidArguments ==
    (/\ pc = "returned"
     /\ \/ args.f0.p <= 0
        \/ args.sample_rate.p <= 0
        \/ args.n < 0)
    => ret.exc # "none"

---------------------------------------------------------------------------
(* Claims about smooth_edges (SpecSmooth).                                 *)

SmoothLen == Len(args.signal)

(* The call is over and the signal is at least two ramps long.             *)
SmoothCase(minAmt) ==
    /\ pc = "returned"
    /\ args.amt >= minAmt
    /\ SmoothLen >= 2 * args.amt

EndsNonZero ==
    /\ args.signal[1] # Zero
    /\ args.signal[SmoothLen] # Zero

(* The first and the last sample of the result are 0, the interior is the   *)
(* input's.                                                                *)
EdgesForced ==
    /\ ret.exc = "none"
    /\ Len(ret.val) = SmoothLen
    /\ ret.val[1] = Zero
    /\ ret.val[SmoothLen] = Zero
    /\ \A i \in (args.amt + 1)..(SmoothLen - args.amt) :
          ret.val[i] = args.signal[i]

(* A ramp is skipped when the sample that gates it is exactly zero.        *)
GatesSkip ==
    /\ ret.exc = "none"
    /\ args.signal[1] = Zero =>
          \A i \in 1..args.amt : ret.val[i] = args.signal[i]
    /\ args.signal[SmoothLen] = Zero =>
          \A i \in (SmoothLen - args.amt + 1)..SmoothLen :
              ret.val[i] = args.signal[i]

(* C7 as stated: for every rampLength >= 1 and every signal of length       *)
(* >= 2 * rampLength with nonzero first and last samples the result starts *)
(* and ends with 0 and keeps the interior; a zero first (last) sample       *)
(* leaves the leading (trailing) ramp unapplied.                           *)
C7_EdgesForcedFromRampOne ==
    SmoothCase(1) => /\ GatesSkip
                     /\ EndsNonZero => EdgesForced

(* C7 amended: the same for every rampLength >= 2 (a falling ramp of one    *)
(* sample is the single value 1 and changes nothing); the gating part for   *)
(* every rampLength >= 1.                                                   *)
C7_EdgesForcedFromRampTwo ==
    /\ SmoothCase(1) => GatesSkip
    /\ SmoothCase(2) /\ EndsNonZero => EdgesForced

(* A ramp of two samples was applied at both ends of a longer signal.       *)
C7_Witness ==
    /\ SmoothCase(2)
    /\ EndsNonZero
    /\ SmoothLen > 2 * args.amt
    /\ ret.val # args.signal

---------------------------------------------------------------------------
(* Claims about fft (SpecFft).                                             *)

FftLen == Len(args.signal)

NotAllZero == \E i \in 1..FftLen : args.signal[i] # Zero

(* 20 log10(|z| / peak) as the claim C8 states it: a real number.          *)
claimed_db(z, peak2) ==
    [mag2 |-> RDiv(Abs2(z), peak2),
     dir  |-> IF Abs2(z) = Zero THEN <<0, 0>> ELSE <<1, 0>>]

(* C8: for a signal of n >= 1 samples that is not all zero, fft returns     *)
(* n // 2 + 1 pairs, frequency[k] = k * sampleRate / n, and real magnitudes *)
(* 20 log10(|Y[k]| / max |Y|): every one <= 0 dB, the largest exactly 0 dB. *)
C8_RealPeakNormalisedMagnitudes ==
    (pc = "returned" /\ FftLen >= 1 /\ NotAllZero) =>
        /\ ret.exc = "none"
        /\ Len(ret.val.xf) = FftLen \div 2 + 1
        /\ Len(ret.val.y_db) = FftLen \div 2 + 1
        /\ \A k \in 1..Len(ret.val.xf) :
              ret.val.xf[k] = Rat((k - 1) * args.sample_rate.p, FftLen)
        /\ Evaluated(args.signal) =>
              LET yf == rfft(args.signal).val
                  peak2 == MaxAbs2(yf, Len(yf))
              IN  /\ \A k \in 1..Len(yf) :
                        /\ ret.val.y_db[k] = claimed_db(yf[k], peak2)
                        /\ ~RLt(One, ret.val.y_db[k].mag2)
                  /\ \E k \in 1..Len(yf) : ret.val.y_db[k].mag2 = One

---------------------------------------------------------------------------
(* Claims about the program (Spec).                                        *)

Sweep == args.spectra
Single == ~args.spectra /\ args.single

(* The shape names the specification supports, and the claims' reading of   *)
(* "lowercased and trimmed".                                               *)
SupportedShapes == {SINE, SOFTSAW, HARDSAW}
Normalised(shape) == str_strip(str_lower(shape))
Unsupported(shape) == Normalised(shape) \notin SupportedShapes

(* floor(lengthSec * 44100)                                                *)
FloorSamples ==
    LET r == RMul(args.length, RInt(SAMPLE_RATE)) IN r.p \div r.q

(* The magnitude column the analyzer yields for `signal` smoothed with the  *)
(* invocation's ramp; <<>> when it cannot be computed.                      *)
ColumnOf(signal) ==
    LET sm == smooth_edges(signal, args.smooth)
    IN  IF sm.exc # "none" THEN <<>>
        ELSE LET f == fft(sm.val, RInt(SAMPLE_RATE))
             IN  IF f.exc # "none" THEN <<>> ELSE f.val.y_db

(* The ideal signal of the sweep for `note`.                                *)
IdealOf(note) ==
    create_saw(RInt(SAMPLE_RATE), loc.samples, freq_for(note), loc.harmonics,
               None).val

(* An iteration of the sweep has just ended.                                *)
AfterIteration == Sweep /\ pc = "hm_for" /\ Len(loc.spectra) > 0

(* C1: in the sweep, the column appended to the rendered matrix for a note  *)
(* is the spectrum of the edge-smoothed left channel that render returned   *)
(* for that note, and the ideal column that of the ideal signal.            *)
C1_RenderedColumnFromEngine ==
    AfterIteration =>
        /\ loc.spectra[Len(loc.spectra)] = ColumnOf(loc.l)
        /\ loc.spectra_ideal[Len(loc.spectra_ideal)]
              = ColumnOf(IdealOf(loc.note - 1))

(* The voice lifecycle read off the call log: where the log leaves the      *)
(* voice, "bad" once a call came out of order.                              *)
VoiceStep(v, c) ==
    CASE v.st = "bad" -> v
      [] c.op = "CoreWrapper" ->
            IF v.st = "idle" THEN [st |-> "new", note |-> 0]
            ELSE [st |-> "bad", note |-> 0]
      [] c.op = "update_param" ->
            IF v.st \in {"new", "setup"} THEN [st |-> "setup", note |-> 0]
            ELSE [st |-> "bad", note |-> 0]
      [] c.op = "note_on" ->
            IF v.st = "setup" THEN [st |-> "on", note |-> c.note]
            ELSE [st |-> "bad", note |-> 0]
      [] c.op = "render" ->
            IF v.st \in {"on", "rendered"} THEN [st |-> "rendered", note |-> v.note]
            ELSE [st |-> "bad", note |-> 0]
      [] c.op = "note_off" ->
            IF v.st = "rendered" /\ c.note = v.note THEN [st |-> "idle", note |-> 0]
            ELSE [st |-> "bad", note |-> 0]

RECURSIVE VoiceAfter(_, _)
VoiceAfter(log, k) ==
    IF k = 0 THEN [st |-> "idle", note |-> 0]
    ELSE VoiceStep(VoiceAfter(log, k - 1), log[k])

(* C2: per voice the engine is called in the order parameter setup,         *)
(* note_on(note), one or more render, note_off(note); every started voice   *)
(* is ended before the entry point goes on to the next note or finishes.    *)
C2_VoiceLifecycleClosed ==
    /\ VoiceAfter(calls, Len(calls)).st # "bad"
    /\ pc \in {"hm_for", "hm_finish", "done"} =>
          VoiceAfter(calls, Len(calls)).st = "idle"

(* C3: a sweep whose shape is unsupported fails with ValueError before any  *)
(* ideal waveform is synthesized and before any engine call, whatever the   *)
(* note range; no matrix is produced.                                       *)
C3_InvalidShapeFailsFirst ==
    (Sweep /\ Unsupported(args.shape)) =>
        /\ pc \in {"main", "heatmap", "raised"}
        /\ pc = "raised" => ret.exc = "ValueError"
        /\ calls = <<>>
        /\ synth = <<>>
        /\ "spectra" \notin DOMAIN loc

(* A sweep over a non-empty note range was refused for its shape.           *)
C3_Witness ==
    /\ Sweep
    /\ Unsupported(args.shape)
    /\ args.note_start < args.note_end
    /\ FloorSamples >= 1
    /\ pc = "raised"

(* C10: in single-note mode an unsupported shape raises ValueError before   *)
(* any reference waveform is computed, any engine is constructed and any    *)
(* update_param, note_on or render call is made.                            *)
C10_SingleValidatesFirst ==
    (Single /\ Unsupported(args.shape) /\ pc = "raised") =>
        /\ ret.exc = "ValueError"
        /\ synth = <<>>
        /\ calls = <<>>

(* The notes of the note_on calls made so far, in order.                    *)
NotesOn ==
    LET on == SelectSeq(calls, LAMBDA c : c.op = "note_on")
    IN  [j \in 1..Len(on) |-> on[j].note]

(* After every iteration both accumulators hold one column per note swept   *)
(* so far, in ascending note order, column j belonging to note_start + j.   *)
ColumnsInStep ==
    pc = "hm_for" =>
        /\ Len(loc.spectra_ideal) = loc.note - args.note_start
        /\ Len(loc.spectra) = Len(loc.spectra_ideal)
        /\ NotesOn = [j \in 1..Len(loc.spectra) |-> args.note_start + j - 1]
        /\ \A j \in 1..Len(loc.spectra_ideal) :
              /\ loc.spectra_ideal[j] = ColumnOf(IdealOf(args.note_start + j - 1))
              /\ Len(loc.spectra_ideal[j]) = FloorSamples \div 2 + 1
              /\ Len(loc.spectra[j]) = FloorSamples \div 2 + 1

(* Both transposed matrices have the shape (n // 2 + 1, noteEnd - noteStart). *)
FinalShapes ==
    pc = "done" =>
        /\ loc.spectra_ideal.shape
              = <<FloorSamples \div 2 + 1, args.note_end - args.note_start>>
        /\ loc.spectra.shape = loc.spectra_ideal.shape

(* C4 as stated: for every sweep with noteStart <= noteEnd the accumulators *)
(* get one column per note in ascending order, stay equally long, and both  *)
(* final matrices have the shape (floor(n / 2) + 1, noteEnd - noteStart).   *)
C4_ShapesForEveryRange ==
    (Sweep /\ args.note_start <= args.note_end /\ args.length.p >= 0) =>
        /\ ColumnsInStep
        /\ FinalShapes

(* The sweeps the amended C4 covers: a supported shape, at least one note,  *)
(* at least one sample and a ramp no longer than the signal.                *)
ProperSweep ==
    /\ Sweep
    /\ ~Unsupported(args.shape)
    /\ args.note_start < args.note_end
    /\ FloorSamples >= 1
    /\ args.smooth <= FloorSamples

(* C4 amended: a proper sweep never raises and satisfies the claim; a sweep *)
(* with noteStart = noteEnd ends with two empty arrays of shape (0,).       *)
C4_ShapesForNonEmptyRange ==
    /\ ProperSweep =>
          /\ pc # "raised"
          /\ ColumnsInStep
          /\ FinalShapes
    /\ (Sweep /\ args.note_start = args.note_end /\ pc = "done") =>
          /\ loc.spectra_ideal.shape = <<0>>
          /\ loc.spectra.shape = <<0>>

(* A proper sweep of two notes has ended.                                   *)
C4_Witness ==
    /\ ProperSweep
    /\ pc = "done"
    /\ args.smooth = 1
    /\ loc.spectra_ideal.shape = <<1, 2>>

(* The harmonic counts the specification gives.                             *)
ClaimedHarmonics(sh) ==
    CASE sh = SINE -> 1
      [] sh = SOFTSAW -> 8
      [] sh = HARDSAW -> 64

(* C5: the sweep passes the harmonic count sine -> 1, softsaw -> 8,         *)
(* hardsaw -> 64 to every create_saw call; the shapes its validation        *)
(* accepts are exactly those shape_float accepts, so initialize_synth never *)
(* raises inside the note loop.                                             *)
C5_HarmonicsAndShapeSetsAgree ==
    Sweep =>
        /\ \A k \in 1..Len(synth) :
              /\ synth[k].fn = "create_saw"
              /\ synth[k].harmonics = ClaimedHarmonics(Normalised(args.shape))
        /\ "spectra" \in DOMAIN loc =>
              /\ shape_float(args.shape).exc = "none"
              /\ shape_float(loc.shape).exc = "none"
        /\ (pc = "raised" /\ "spectra" \notin DOMAIN loc) =>
              shape_float(args.shape).exc # "none"
        /\ pc = "raised" =>
              \/ calls = <<>>
              \/ calls[Len(calls)].op = "note_off"

(* The second note of a sweep whose shape name needed normalising has been  *)
(* set up.                                                                  *)
C5_Witness ==
    /\ Sweep
    /\ pc = "hm_note_on"
    /\ Len(synth) = 2
    /\ args.shape # loc.shape
    /\ loc.harmonics = 64

(* The ideal signal the specification gives single-note mode: create_saw    *)
(* with the shape's harmonic count, sampled at t = i / SAMPLE_RATE.         *)
IdealSingle ==
    create_saw(RInt(SAMPLE_RATE), loc.buf_len, freq_for(loc.note),
               ClaimedHarmonics(Normalised(args.shape)), None).val

(* The window [cut_start, cut_end) of the rendered signal, the full buffer  *)
(* by default.                                                              *)
WindowOf(signal) ==
    py_slice(signal,
             IF args.cut_start # None THEN args.cut_start.p ELSE 0,
             IF args.cut_end # None THEN args.cut_end.p ELSE Len(signal))

(* C11: single-note mode, for every supported shape, takes the per-note     *)
(* steps of the sweep: the ideal signal is create_saw's output for the      *)
(* shape's harmonic count (1, 8 or 64) sampled at t = i / SAMPLE_RATE, the  *)
(* rendered signal is the smoothed window of the engine's left channel, and *)
(* the spectrum is the analyzer's output for that signal.                   *)
C11_SingleStepsAsSweep ==
    (Single /\ ~Unsupported(args.shape) /\ pc = "done") =>
        /\ loc.ys = IdealSingle
        /\ \E k \in 1..Len(synth) :
              /\ synth[k].fn = "create_saw"
              /\ synth[k].harmonics = ClaimedHarmonics(Normalised(args.shape))
        /\ loc.signal = smooth_edges(WindowOf(loc.signal_left), args.smooth).val
        /\ loc.y_db = ColumnOf(WindowOf(loc.signal_left))

(* C12: every render call of a sweep carries the invocation's chunk size,   *)
(* floor(lengthSec * 44100) samples and the validated shape.                *)
C12_SweepRendersWithCallerChunkSize ==
    Sweep =>
        \A k \in 1..Len(calls) :
            calls[k].op = "render" =>
                /\ calls[k].chunk_size = args.chunk_size
                /\ calls[k].samples = FloorSamples
                /\ calls[k].shape = Normalised(args.shape)

(* C13: for every non-empty signal and every rampLength >= 0, whatever its  *)
(* relation to the signal's length, smooth_edges returns a signal of the    *)
(* input's length, and the input itself for rampLength = 0.                 *)
C13_LengthKeptForEveryRamp ==
    (pc = "returned" /\ SmoothLen >= 1 /\ args.amt >= 0) =>
        /\ ret.exc = "none"
        /\ Len(ret.val) = SmoothLen
        /\ args.amt = 0 => ret.val = args.signal

=============================================================================
